---- MODULE Spec2Model ----
(***************************************************************************)
(* Order Management & Execution Engine (class OrderManagementSystem).      *)
(*                                                                         *)
(* Prices are integers in cents.  Quantities are positive integers.        *)
(* A timer callback of the code is one action; the callbacks of different  *)
(* orders interleave freely (their submission times are arbitrary), the    *)
(* poll interval and the expiry timeout of one LIMIT task are ordered by   *)
(* the number of polls that fit into the time-in-force window.             *)
(***************************************************************************)
EXTENDS Integers, Sequences, FiniteSets, TLC

VARIABLES
    orders,             \* this.orders: order id -> Order
    trades,             \* this.trades: sequence of Trade
    orderIdCounter,     \* this.orderIdCounter
    tradeIdCounter,     \* this.tradeIdCounter
    executionMetrics,   \* this.executionMetrics: order id -> ExecutionMetrics
    task,               \* per order: its pending timers and the closure variables of its algorithm
    recentFrom,         \* orders with id >= recentFrom have a timestamp younger than one second
                        \* (the clock moves in SpecVelocity only)
    px,                 \* the last value drawn for the simulated market price
    priceMoves,         \* how often a draw differed from the draw before it
    ret,                \* what the last public call returned (NoRet after a timer callback)
    userCancelled,      \* history: the ids for which cancelOrder has returned true
    riskIn,             \* risk gate alone: the order handed to preTradeRiskCheck
    riskOut,            \* risk gate alone: its verdict ("none" before the call)
    venueIn,            \* venue selection alone: the order handed to selectOptimalVenue
    venueOut            \* venue selection alone: the draws of the call and the venue returned

omsVars == <<orders, trades, orderIdCounter, tradeIdCounter, executionMetrics,
             task, recentFrom, px, priceMoves, ret, userCancelled>>
riskVars == <<riskIn, riskOut>>
vars == <<orders, trades, orderIdCounter, tradeIdCounter, executionMetrics,
          task, recentFrom, px, priceMoves, ret, userCancelled, riskIn, riskOut, venueIn, venueOut>>

---------------------------------------------------------------------------
(* Bounds of the model *)

MaxOrders == 2          \* submitOrder is called at most MaxOrders times
MaxPriceMoves == 1      \* the simulated price changes at most this often in a run
MaxPolls == 2           \* a LIMIT task's poll counter is capped here

(* Program constants *)

Absent == 0             \* an optional field left out (undefined; 0 is as falsy)
maxPositionSize == 50000
maxOrderValue == 500000000      \* 5000000 dollars, in cents
lastPrice == 10000              \* 100 dollars, in cents
defaultPrice == 10000           \* order.price || 100
collarPercent == 10             \* priceDeviation > 0.10
velocityLimit == 10             \* recentOrders.length > 10
pollIntervalMs == 500           \* setInterval(..., 500) of processLimitOrder
twapSlices == 20
vwapSlices == 15
slippageFreeQuantity == 1000    \* Math.log(quantity / 1000) <= 0 up to here

venues == <<"NYSE", "NASDAQ", "BATS", "ARCA", "IEX">>

Venue == {venues[i] : i \in 1..Len(venues)}

\* this.venueFees, in 1/10000
venueFees(venue) ==
    CASE venue = "NYSE" -> 25
      [] venue = "NASDAQ" -> 20
      [] venue = "BATS" -> 15
      [] venue = "ARCA" -> 22
      [] venue = "IEX" -> 9

\* 1.5 / this.venueLatency, scaled by 28000 (latency 0.5, 0.3, 0.2, 0.4, 0.35)
latencyTerm(venue) ==
    CASE venue = "NYSE" -> 84000
      [] venue = "NASDAQ" -> 140000
      [] venue = "BATS" -> 210000
      [] venue = "ARCA" -> 105000
      [] venue = "IEX" -> 120000

Terminal == {"FILLED", "CANCELLED", "REJECTED"}

Abs(x) == IF x < 0 THEN -x ELSE x
Min(a, b) == IF a < b THEN a ELSE b
Max(a, b) == IF a > b THEN a ELSE b

---------------------------------------------------------------------------
(* Inputs *)

Req(type, side, quantity, price, stopPrice, displayQuantity, timeInForce) ==
    [type |-> type, side |-> side, quantity |-> quantity, price |-> price,
     stopPrice |-> stopPrice, displayQuantity |-> displayQuantity,
     timeInForce |-> timeInForce]

\* The order requests submitOrder is called with.
Requests ==
    { Req("MARKET", "BUY", 5, Absent, Absent, Absent, "GTC"),
      Req("LIMIT", "BUY", 5, 10000, Absent, Absent, "IOC"),
      Req("LIMIT", "SELL", 5, 10800, Absent, Absent, "FOK"),
      Req("STOP", "BUY", 5, Absent, 10000, Absent, "GTC"),
      Req("STOP", "SELL", 5, Absent, 15000, Absent, "DAY"),
      Req("STOP_LIMIT", "SELL", 5, 10000, 10000, Absent, "FOK"),
      Req("ICEBERG", "BUY", 4, 10000, Absent, 2, "GTC"),
      Req("TWAP", "BUY", 45, Absent, Absent, Absent, "DAY"),
      Req("VWAP", "SELL", 30, Absent, Absent, Absent, "DAY"),
      Req("LIMIT", "BUY", 5, 11100, Absent, Absent, "GTC"),
      Req("MARKET", "SELL", 50001, Absent, Absent, Absent, "GTC") }

\* simulateMarketPrice() is 100 + (Math.random() - 0.5) * 10, in [95, 105)
MarketPrices == {9900, 10400}

\* calculateHistoricalVWAP() is 100 + (Math.random() - 0.5) * 5
HistoricalVWAPs == {10000}

\* 0.8 + Math.random() * 0.2, in percent (1.0 is reached by rounding)
FillPercents == {80, 90, 100}

\* One draw of Math.random() * 100 (liquidity) and of Math.random() * 20 - 10
\* (fill probability adjustment) per venue, in declaration order.
RandomDraws ==
    { [liq |-> <<50, 50, 50, 50, 50>>, adj |-> <<0, 0, 0, 0, 0>>] }

---------------------------------------------------------------------------
(* Risk gate *)

\* the four checks of preTradeRiskCheck, in the order of the code
positionLimitExceeded(order) == order.quantity > maxPositionSize

estimatedValue(order) ==
    order.quantity * (IF order.price # Absent THEN order.price ELSE defaultPrice)

\* the comparison taken as >= (an order exactly at the limit is refused)
orderValueExceededAtLimit(order) == estimatedValue(order) >= maxOrderValue

orderValueExceeded(order) == estimatedValue(order) > maxOrderValue

priceCollarExceeded(order) ==
    /\ order.price # Absent
    /\ Abs(order.price - lastPrice) * 100 > collarPercent * lastPrice

velocityExceeded(recent) == recent > velocityLimit

preTradeRiskCheck(order, recent) ==
    /\ ~positionLimitExceeded(order)
    /\ ~orderValueExceeded(order)
    /\ ~priceCollarExceeded(order)
    /\ ~velocityExceeded(recent)

---------------------------------------------------------------------------
(* Venue scorer.  Scores are scaled by 28000 to stay integral. *)

VenueIndex(venue) == CHOOSE i \in 1..Len(venues) : venues[i] = venue

\* Math.min(100, baseScore * venueMultiplier), in tenths
getLiquidityScore(venue, base) ==
    Min(1000, base * (IF venue = "NYSE" THEN 12 ELSE IF venue = "NASDAQ" THEN 11 ELSE 10))

getFillProbability(order, adj) ==
    Max(0, Min(100, (IF order.type = "MARKET" THEN 95
                     ELSE IF order.type = "LIMIT" THEN 70 ELSE 60) + adj))

\* Math.max(0, Math.log(quantity / 1000) * 0.01 * multiplier): 0 up to 1000
getMarketImpact(venue, order) ==
    IF order.quantity <= slippageFreeQuantity THEN 0
    ELSE IF venue = "IEX" THEN 8 ELSE 10

calculateVenueScore(venue, order, draws) ==
    Max(0, getLiquidityScore(venue, draws.liq[VenueIndex(venue)]) * 1120
           + getFillProbability(order, draws.adj[VenueIndex(venue)]) * 7000
           + (560000 - 56 * venueFees(venue))
           + latencyTerm(venue)
           - getMarketImpact(venue, order) * 28)

\* this.venues.map(venue => ({venue, score})), in declaration order
venueScores(order, draws) ==
    [i \in 1..Len(venues) |->
        [venue |-> venues[i], score |-> calculateVenueScore(venues[i], order, draws)]]

\* One insertion of the sort with comparator (a, b) => b.score - a.score: x
\* goes before the first element of lower score; Array.prototype.sort is
\* stable, so x stays behind the elements of equal score that came before it.
\* (insertByScoreBeforeTies: x goes before the elements of equal score)
RECURSIVE insertByScoreBeforeTies(_, _)
insertByScoreBeforeTies(sorted, x) ==
    IF sorted = <<>> THEN <<x>>
    ELSE IF Head(sorted).score <= x.score THEN <<x>> \o sorted
    ELSE <<Head(sorted)>> \o insertByScoreBeforeTies(Tail(sorted), x)

RECURSIVE insertByScore(_, _)
insertByScore(sorted, x) ==
    IF sorted = <<>> THEN <<x>>
    ELSE IF Head(sorted).score < x.score THEN <<x>> \o sorted
    ELSE <<Head(sorted)>> \o insertByScore(Tail(sorted), x)

\* venueScores.sort((a, b) => b.score - a.score)
RECURSIVE sortByScore(_)
sortByScore(s) ==
    IF s = <<>> THEN <<>>
    ELSE insertByScore(sortByScore(SubSeq(s, 1, Len(s) - 1)), s[Len(s)])

\* venueScores[0].venue after the sort
selectOptimalVenue(order, draws) == sortByScore(venueScores(order, draws))[1].venue

---------------------------------------------------------------------------
(* Helpers of the execution algorithms *)

Put(f, k, v) == [x \in (DOMAIN f) \cup {k} |-> IF x = k THEN v ELSE f[x]]

getTimeInForceMs(timeInForce) ==
    CASE timeInForce = "IOC" -> 1000
      [] timeInForce = "FOK" -> 500
      [] timeInForce = "DAY" -> 8 * 60 * 60 * 1000
      [] OTHER -> 24 * 60 * 60 * 1000

\* polls of the 500 ms interval that fit into the window, capped
TifPolls(timeInForce) == Min(getTimeInForceMs(timeInForce) \div pollIntervalMs, MaxPolls)

\* Math.max(0, Math.log(quantity / 1000) * 0.0001 * multiplier), in 1/1000000:
\* 0 up to quantity 1000, positive above (the logarithm is not computed here)
calculateSlippage(quantity, venue) ==
    IF quantity <= slippageFreeQuantity THEN 0
    ELSE IF venue = "IEX" THEN 70 ELSE 100

\* marketPrice * (1 + slippage) for BUY, marketPrice * (1 - slippage) for SELL
slippedPrice(side, marketPrice, slippage) ==
    IF side = "BUY" THEN marketPrice + (marketPrice * slippage) \div 1000000
    ELSE marketPrice - (marketPrice * slippage) \div 1000000

\* quantity * price * feeRate, in 1/10000 cent
calculateCommission(quantity, price, venue) == quantity * price * venueFees(venue)

createTrade(order, quantity, price, venue) ==
    [id |-> tradeIdCounter, orderId |-> order.id, side |-> order.side,
     quantity |-> quantity, price |-> price, venue |-> venue,
     commission |-> calculateCommission(quantity, price, venue)]

\* the status executeTrade leaves
\* the comparison taken as > (a complete fill is left PARTIALLY_FILLED)
fillStatusStrict(fillQuantity, quantity) ==
    IF fillQuantity > quantity THEN "FILLED" ELSE "PARTIALLY_FILLED"

fillStatus(fillQuantity, quantity) ==
    IF fillQuantity >= quantity THEN "FILLED" ELSE "PARTIALLY_FILLED"

\* the order as executeTrade leaves it; avgFillPrice is the fraction n / d
executeTrade(order, quantity, price, venue) ==
    LET fq == order.fillQuantity + quantity
    IN [order EXCEPT
          !.fillQuantity = fq,
          !.avgFillPrice = [n |-> order.avgFillPrice.n * (fq - quantity)
                                    + price * quantity * order.avgFillPrice.d,
                            d |-> order.avgFillPrice.d * fq],
          !.commission = order.commission + calculateCommission(quantity, price, venue),
          !.status = fillStatus(fq, order.quantity)]

NoMetrics ==
    [fillRate |-> [defined |-> FALSE, n |-> 0, d |-> 0],
     twap |-> 0, vwap |-> 0, implementationShortfall |-> "undefined"]

calculateExecutionMetrics(order) ==
    [fillRate |-> [defined |-> TRUE, n |-> order.fillQuantity, d |-> order.quantity],
     twap |-> 0, vwap |-> 0, implementationShortfall |-> "arrival"]

\* this.executionMetrics.get(order.id) || {}
metricsOrEmpty(id) ==
    IF id \in DOMAIN executionMetrics THEN executionMetrics[id] ELSE NoMetrics

\* calculateTWAPBenchmark() is 100 + (Math.random() - 0.5) * 2
TwapBenchmarks == {10000}

calculateTWAPMetrics(order, benchmark) ==
    [metricsOrEmpty(order.id) EXCEPT !.twap = benchmark, !.implementationShortfall = "twap"]

calculateVWAPMetrics(order, benchmark) ==
    [metricsOrEmpty(order.id) EXCEPT !.vwap = benchmark, !.implementationShortfall = "vwap"]

\* getVolumeWeight(slice, 15) = ((slice / 15 - 0.5) ^ 2 * 4 + 0.5) / 15
\*                            = (2 * (2 * slice - 15) ^ 2 + 225) / 6750
volumeWeightNum(slice) == 2 * (2 * slice - vwapSlices) * (2 * slice - vwapSlices) + 225
volumeWeightDen == 6750

\* Math.floor(order.quantity * volumeWeight)
vwapSliceSize(quantity, slice) == (quantity * volumeWeightNum(slice)) \div volumeWeightDen

\* Math.abs(vwapDeviation) > 0.02 ? 0.8 : 0.5, in tenths
vwapAggressiveness(marketPrice, historicalVWAP) ==
    IF Abs(marketPrice - historicalVWAP) * 100 > 2 * historicalVWAP THEN 8 ELSE 5

\* marketPrice +- marketPrice * 0.001 * aggressiveness, kept to the cent
calculateVWAPFillPrice(marketPrice, side, aggressiveness) ==
    IF side = "BUY" THEN marketPrice + (marketPrice * aggressiveness) \div 10000
    ELSE marketPrice - (marketPrice * aggressiveness) \div 10000

NoTask ==
    [venue |-> "none", timeout |-> FALSE, checkInterval |-> "none", expiry |-> FALSE,
     polls |-> 0, slice |-> "none", displayQuantity |-> 0, remainingQuantity |-> 0,
     sliceQuantity |-> 0, executedQuantity |-> 0, totalValue |-> 0, sliceCount |-> 0,
     historicalVWAP |-> 0]

\* ret: the call, the order id submitOrder returned, the boolean cancelOrder returned
NoRet == [op |-> "none", id |-> 0, ok |-> FALSE]

Ids == DOMAIN orders

TradesOf(id) == SelectSeq(trades, LAMBDA t : t.orderId = id)

RECURSIVE SumQuantity(_)
SumQuantity(s) == IF s = <<>> THEN 0 ELSE Head(s).quantity + SumQuantity(Tail(s))

\* a timer of the order is pending
Live(id) ==
    \/ task[id].timeout
    \/ task[id].checkInterval # "none"
    \/ task[id].expiry
    \/ task[id].slice # "none"

Sliced(type) == type \in {"TWAP", "VWAP"}

\* Array.from(this.orders.values()).filter(o => Date.now() - o.timestamp < 1000).length
RecentCount == Cardinality({id \in Ids : id >= recentFrom})

\* successive draws of the simulated price, at most MaxPriceMoves changes in a run
Changes(s) == Cardinality({i \in 1..(Len(s) - 1) : s[i] # s[i + 1]})

Draw(s) ==
    /\ \A i \in 1..Len(s) : s[i] \in MarketPrices
    /\ priceMoves + Changes(<<px>> \o s) <= MaxPriceMoves
    /\ px' = s[Len(s)]
    /\ priceMoves' = priceMoves + Changes(<<px>> \o s)

---------------------------------------------------------------------------
(* The execution algorithms.  Each takes the order o as it is to be stored  *)
(* and the task record t of that order, and sets every variable but         *)
(* orderIdCounter, recentFrom and ret.                                      *)

Quiet == UNCHANGED <<trades, tradeIdCounter, executionMetrics, px, priceMoves>>

\* setTimeout(..., venueLatency * 1000)
processMarketOrder(o, t) ==
    /\ orders' = Put(orders, o.id, o)
    /\ task' = Put(task, o.id, [t EXCEPT !.timeout = TRUE])
    /\ Quiet

\* setInterval(..., 500) and setTimeout(..., getTimeInForceMs(timeInForce))
processLimitOrder(o, t) ==
    /\ orders' = Put(orders, o.id, o)
    /\ task' = Put(task, o.id, [t EXCEPT !.checkInterval = "limit", !.expiry = TRUE,
                                          !.polls = 0])
    /\ Quiet

\* setInterval(..., 100)
processStopOrder(o, t) ==
    /\ orders' = Put(orders, o.id, o)
    /\ task' = Put(task, o.id, [t EXCEPT !.checkInterval = "stop"])
    /\ Quiet

processStopLimitOrder(o, t) ==
    /\ orders' = Put(orders, o.id, o)
    /\ task' = Put(task, o.id, [t EXCEPT !.checkInterval = "stopLimit"])
    /\ Quiet

\* processSlice of processIcebergOrder: returns at once when nothing remains,
\* else sets the timeout that works the next slice
\* (processSliceWhole: the whole remaining quantity is exposed)
processSliceWhole(t) ==
    IF t.remainingQuantity <= 0 THEN [t EXCEPT !.slice = "none"]
    ELSE [t EXCEPT !.sliceQuantity = t.remainingQuantity, !.slice = "icebergFill"]

processSlice(t) ==
    IF t.remainingQuantity <= 0 THEN [t EXCEPT !.slice = "none"]
    ELSE [t EXCEPT !.sliceQuantity = Min(t.displayQuantity, t.remainingQuantity),
                   !.slice = "icebergFill"]

processIcebergOrder(o, t) ==
    /\ orders' = Put(orders, o.id, o)
    /\ task' = Put(task, o.id,
          processSlice([t EXCEPT
              !.displayQuantity = IF o.displayQuantity # Absent THEN o.displayQuantity
                                  ELSE o.quantity \div 10,
              !.remainingQuantity = o.quantity,
              !.totalValue = 0,
              !.executedQuantity = 0]))
    /\ Quiet

\* the quantity of TWAP slice number sliceCount
\* (twapSliceSizeEven: the last slice is sized like the others)
twapSliceSizeEven(o, t) == o.quantity \div twapSlices

\* (twapSliceSizeLastWhole: the last slice does not subtract what was executed)
twapSliceSizeLastWhole(o, t) ==
    IF t.sliceCount = twapSlices - 1 THEN o.quantity
    ELSE o.quantity \div twapSlices

twapSliceSize(o, t) ==
    IF t.sliceCount = twapSlices - 1 THEN o.quantity - t.executedQuantity
    ELSE o.quantity \div twapSlices

\* executeSlice of processTWAPOrder, at simulated price p, benchmark b
executeSliceTWAP(o, t, p, b) ==
    IF t.sliceCount >= twapSlices
    THEN /\ orders' = Put(orders, o.id, o)
         /\ task' = Put(task, o.id, [t EXCEPT !.slice = "none"])
         /\ Quiet
    ELSE LET currentSliceSize == twapSliceSize(o, t)
             fillPrice == slippedPrice(o.side, p, calculateSlippage(currentSliceSize, t.venue))
             t1 == [t EXCEPT !.executedQuantity = @ + currentSliceSize,
                             !.totalValue = @ + fillPrice * currentSliceSize,
                             !.sliceCount = @ + 1]
         IN /\ Draw(<<p>>)
            /\ trades' = Append(trades, createTrade(o, currentSliceSize, fillPrice, t.venue))
            /\ tradeIdCounter' = tradeIdCounter + 1
            /\ IF t1.sliceCount < twapSlices
               THEN /\ orders' = Put(orders, o.id, o)
                    /\ task' = Put(task, o.id, [t1 EXCEPT !.slice = "twap"])
                    /\ UNCHANGED executionMetrics
               ELSE LET done == [o EXCEPT
                                   !.fillQuantity = t1.executedQuantity,
                                   !.avgFillPrice = [n |-> t1.totalValue,
                                                     d |-> t1.executedQuantity],
                                   !.status = "FILLED"]
                    IN /\ orders' = Put(orders, o.id, done)
                       /\ task' = Put(task, o.id, [t1 EXCEPT !.slice = "none"])
                       /\ executionMetrics' =
                             Put(executionMetrics, o.id, calculateTWAPMetrics(done, b))

processTWAPOrder(o, t, p, b) ==
    executeSliceTWAP(o, [t EXCEPT !.executedQuantity = 0, !.totalValue = 0,
                                  !.sliceCount = 0], p, b)

\* executeSlice of processVWAPOrder, at simulated price p
executeSliceVWAP(o, t, p) ==
    IF t.sliceCount >= vwapSlices
    THEN /\ orders' = Put(orders, o.id, o)
         /\ task' = Put(task, o.id, [t EXCEPT !.slice = "none"])
         /\ Quiet
    ELSE LET sliceSize == vwapSliceSize(o.quantity, t.sliceCount)
             fillPrice == calculateVWAPFillPrice(p, o.side,
                              vwapAggressiveness(p, t.historicalVWAP))
             t1 == [t EXCEPT !.executedQuantity = @ + sliceSize,
                             !.totalValue = @ + fillPrice * sliceSize,
                             !.sliceCount = @ + 1]
         IN /\ Draw(<<p>>)
            /\ trades' = Append(trades, createTrade(o, sliceSize, fillPrice, t.venue))
            /\ tradeIdCounter' = tradeIdCounter + 1
            /\ IF t1.sliceCount < vwapSlices /\ t1.executedQuantity < o.quantity
               THEN /\ orders' = Put(orders, o.id, o)
                    /\ task' = Put(task, o.id, [t1 EXCEPT !.slice = "vwap"])
                    /\ UNCHANGED executionMetrics
               ELSE LET done == [o EXCEPT
                                   !.fillQuantity = t1.executedQuantity,
                                   !.avgFillPrice = [n |-> t1.totalValue,
                                                     d |-> t1.executedQuantity],
                                   !.status = IF t1.executedQuantity = o.quantity
                                              THEN "FILLED" ELSE "PARTIALLY_FILLED"]
                    IN /\ orders' = Put(orders, o.id, done)
                       /\ task' = Put(task, o.id, [t1 EXCEPT !.slice = "none"])
                       /\ executionMetrics' =
                             Put(executionMetrics, o.id,
                                 calculateVWAPMetrics(done, t.historicalVWAP))

processVWAPOrder(o, t, p, h) ==
    executeSliceVWAP(o, [t EXCEPT !.historicalVWAP = h, !.executedQuantity = 0,
                                  !.totalValue = 0, !.sliceCount = 0], p)

\* processOrder: status SUBMITTED, then the algorithm of the order's type
processOrder(order, venue, p, b, h) ==
    LET o == [order EXCEPT !.status = "SUBMITTED"]
        t == [NoTask EXCEPT !.venue = venue]
    IN CASE o.type = "MARKET" -> processMarketOrder(o, t)
         [] o.type = "LIMIT" -> processLimitOrder(o, t)
         [] o.type = "STOP" -> processStopOrder(o, t)
         [] o.type = "STOP_LIMIT" -> processStopLimitOrder(o, t)
         [] o.type = "ICEBERG" -> processIcebergOrder(o, t)
         [] o.type = "TWAP" -> processTWAPOrder(o, t, p, b)
         [] o.type = "VWAP" -> processVWAPOrder(o, t, p, h)

---------------------------------------------------------------------------
(* Public operations *)

\* (newOrderFixedId: the counter is not used for the id)
newOrderFixedId(req, id) ==
    [id |-> 1, type |-> req.type, side |-> req.side, quantity |-> req.quantity,
     price |-> req.price, stopPrice |-> req.stopPrice,
     displayQuantity |-> req.displayQuantity, timeInForce |-> req.timeInForce,
     status |-> "PENDING", fillQuantity |-> 0, avgFillPrice |-> [n |-> 0, d |-> 1],
     commission |-> 0]

newOrder(req, id) ==
    [id |-> id, type |-> req.type, side |-> req.side, quantity |-> req.quantity,
     price |-> req.price, stopPrice |-> req.stopPrice,
     displayQuantity |-> req.displayQuantity, timeInForce |-> req.timeInForce,
     status |-> "PENDING", fillQuantity |-> 0, avgFillPrice |-> [n |-> 0, d |-> 1],
     commission |-> 0]

\* Bound on the runs explored: a TWAP or VWAP order is submitted while no
\* timer of another order is pending, and no order is submitted while a TWAP
\* or VWAP order is being sliced.
SlicedAlone(req) ==
    /\ Sliced(req.type) => \A id \in Ids : ~Live(id)
    /\ \A id \in Ids : task[id].slice \notin {"twap", "vwap"}

\* the rejection branch without its return: the order is routed all the same
submitOrderNoReturn(req, draws, p, b, h) ==
    /\ SlicedAlone(req)
    /\ LET order == newOrder(req, orderIdCounter)
       IN /\ orderIdCounter' = orderIdCounter + 1
          /\ ret' = [op |-> "submitOrder", id |-> order.id, ok |-> FALSE]
          /\ UNCHANGED <<recentFrom, userCancelled, riskIn, riskOut, venueIn, venueOut>>
          /\ processOrder(order, selectOptimalVenue(order, draws), p, b, h)

submitOrder(req, draws, p, b, h) ==
    /\ SlicedAlone(req)
    /\ LET order == newOrder(req, orderIdCounter)
       IN /\ orderIdCounter' = orderIdCounter + 1
          /\ ret' = [op |-> "submitOrder", id |-> order.id, ok |-> FALSE]
          /\ UNCHANGED <<recentFrom, userCancelled, riskIn, riskOut, venueIn, venueOut>>
          /\ IF ~preTradeRiskCheck(order, RecentCount)
             THEN /\ orders' = Put(orders, order.id, [order EXCEPT !.status = "REJECTED"])
                  /\ task' = Put(task, order.id, NoTask)
                  /\ Quiet
             ELSE processOrder(order, selectOptimalVenue(order, draws), p, b, h)

\* the condition under which cancelOrder cancels
\* (cancellableAlsoPartial: PARTIALLY_FILLED accepted as well)
cancellableAlsoPartial(id) ==
    id \in Ids /\ orders[id].status \in {"SUBMITTED", "PARTIALLY_FILLED"}

\* (cancellableAnyStatus: the status is not looked at)
cancellableAnyStatus(id) == id \in Ids

cancellable(id) == id \in Ids /\ orders[id].status = "SUBMITTED"

cancelOrder(id) ==
    /\ IF cancellable(id)
       THEN /\ orders' = [orders EXCEPT ![id].status = "CANCELLED"]
            /\ ret' = [op |-> "cancelOrder", id |-> 0, ok |-> TRUE]
            /\ userCancelled' = userCancelled \cup {id}
       ELSE /\ UNCHANGED orders
            /\ ret' = [op |-> "cancelOrder", id |-> 0, ok |-> FALSE]
            /\ UNCHANGED userCancelled
    /\ UNCHANGED <<trades, orderIdCounter, tradeIdCounter, executionMetrics, task,
                   recentFrom, px, priceMoves, riskIn, riskOut, venueIn, venueOut>>

---------------------------------------------------------------------------
(* Timer callbacks *)

Callback ==
    /\ ret' = NoRet
    /\ UNCHANGED <<orderIdCounter, recentFrom, userCancelled, riskIn, riskOut, venueIn, venueOut>>

\* executeTrade as a step, the callback holding the order routed last instead
\* of its own
executeTradeStepLatest(id, quantity, price) ==
    LET routed == {i \in Ids : task[i].venue # "none"}
        last == CHOOSE i \in routed : \A j \in routed : j <= i
        o == executeTrade(orders[last], quantity, price, task[last].venue)
    IN /\ trades' = Append(trades, createTrade(orders[last], quantity, price, task[last].venue))
       /\ tradeIdCounter' = tradeIdCounter + 1
       /\ orders' = [orders EXCEPT ![last] = o]
       /\ executionMetrics' = Put(executionMetrics, last, calculateExecutionMetrics(o))

\* executeTrade as a step, the trade put at the head of the ledger (unshift for
\* push)
executeTradeStepUnshift(id, quantity, price) ==
    LET o == executeTrade(orders[id], quantity, price, task[id].venue)
    IN /\ trades' = <<createTrade(orders[id], quantity, price, task[id].venue)>> \o trades
       /\ tradeIdCounter' = tradeIdCounter + 1
       /\ orders' = [orders EXCEPT ![id] = o]
       /\ executionMetrics' = Put(executionMetrics, id, calculateExecutionMetrics(o))

\* executeTrade as a step, the trade routed to the first venue declared
\* instead of the venue selected at submission
executeTradeStepFirstVenue(id, quantity, price) ==
    LET o == executeTrade(orders[id], quantity, price, venues[1])
    IN /\ trades' = Append(trades, createTrade(orders[id], quantity, price, venues[1]))
       /\ tradeIdCounter' = tradeIdCounter + 1
       /\ orders' = [orders EXCEPT ![id] = o]
       /\ executionMetrics' = Put(executionMetrics, id, calculateExecutionMetrics(o))

\* executeTrade as a step: the trade, the order and its metrics
executeTradeStep(id, quantity, price) ==
    LET o == executeTrade(orders[id], quantity, price, task[id].venue)
    IN /\ trades' = Append(trades, createTrade(orders[id], quantity, price, task[id].venue))
       /\ tradeIdCounter' = tradeIdCounter + 1
       /\ orders' = [orders EXCEPT ![id] = o]
       /\ executionMetrics' = Put(executionMetrics, id, calculateExecutionMetrics(o))

\* the timeout of processMarketOrder
\* (marketTimeoutPartial: all but one unit of the quantity is executed)
marketTimeoutPartial(id) ==
    /\ task[id].timeout
    /\ \E p \in MarketPrices, b \in MarketPrices :
          /\ Draw(<<p, b>>)
          /\ executeTradeStep(id, orders[id].quantity - 1,
                 slippedPrice(orders[id].side, p,
                     calculateSlippage(orders[id].quantity, task[id].venue)))
    /\ task' = [task EXCEPT ![id].timeout = FALSE]
    /\ Callback

marketTimeout(id) ==
    /\ task[id].timeout
    /\ \E p \in MarketPrices, b \in MarketPrices :
          /\ Draw(<<p, b>>)
          /\ executeTradeStep(id, orders[id].quantity,
                 slippedPrice(orders[id].side, p,
                     calculateSlippage(orders[id].quantity, task[id].venue)))
    /\ task' = [task EXCEPT ![id].timeout = FALSE]
    /\ Callback

\* currentPrice <= order.price for BUY, >= for SELL; false when price is undefined
shouldFill(o, currentPrice) ==
    /\ o.price # Absent
    /\ IF o.side = "BUY" THEN currentPrice <= o.price ELSE currentPrice >= o.price

\* the interval of processLimitOrder after a poll: cleared when the poll fills
\* (limitIntervalKept: the clearInterval left out)
limitIntervalKept(fills) == "limit"

limitIntervalAfter(fills) == IF fills THEN "none" ELSE "limit"

\* the interval of processLimitOrder; lucky is Math.random() > 0.3
limitInterval(id) ==
    /\ task[id].checkInterval = "limit"
    /\ task[id].polls < TifPolls(orders[id].timeInForce)
    /\ \E p \in MarketPrices, lucky \in BOOLEAN, b \in MarketPrices :
          LET fills == shouldFill(orders[id], p) /\ lucky
          IN /\ task' = [task EXCEPT ![id].polls = @ + 1,
                                     ![id].checkInterval = limitIntervalAfter(fills)]
             /\ IF fills
                THEN /\ Draw(<<p, b>>)
                     /\ executeTradeStep(id, orders[id].quantity, orders[id].price)
                ELSE /\ Draw(<<p>>)
                     /\ UNCHANGED <<orders, trades, tradeIdCounter, executionMetrics>>
    /\ Callback

\* the status the expiry timeout leaves
\* (expiredStatusKept: the expiry only clears the interval)
expiredStatusKept(status) == status

expiredStatus(status) == IF status = "SUBMITTED" THEN "CANCELLED" ELSE status

\* the interval after clearInterval(checkInterval) in the expiry timeout
\* (intervalAfterExpiryKept: the clearInterval left out)
intervalAfterExpiryKept(checkInterval) == checkInterval

intervalAfterExpiry(checkInterval) ==
    IF checkInterval = "limit" THEN "none" ELSE checkInterval

\* the time-in-force timeout of processLimitOrder
limitTimeout(id) ==
    /\ task[id].expiry
    /\ \/ task[id].checkInterval # "limit"
       \/ task[id].polls + 1 >= TifPolls(orders[id].timeInForce)
    /\ task' = [task EXCEPT ![id].expiry = FALSE,
                            ![id].checkInterval = intervalAfterExpiry(@)]
    /\ orders' = [orders EXCEPT ![id].status = expiredStatus(@)]
    /\ Quiet
    /\ Callback

\* currentPrice >= order.stopPrice for BUY, <= for SELL; false when undefined
\* (shouldTriggerBeyond: the stop price itself does not trigger)
shouldTriggerBeyond(o, currentPrice) ==
    /\ o.stopPrice # Absent
    /\ IF o.side = "BUY" THEN currentPrice > o.stopPrice ELSE currentPrice < o.stopPrice

shouldTrigger(o, currentPrice) ==
    /\ o.stopPrice # Absent
    /\ IF o.side = "BUY" THEN currentPrice >= o.stopPrice ELSE currentPrice <= o.stopPrice

\* the interval of processStopOrder
stopInterval(id) ==
    /\ task[id].checkInterval = "stop"
    /\ \E p \in MarketPrices :
          /\ Draw(<<p>>)
          /\ IF shouldTrigger(orders[id], p)
             THEN /\ orders' = [orders EXCEPT ![id].type = "MARKET"]
                  /\ task' = [task EXCEPT ![id].checkInterval = "none",
                                          ![id].timeout = TRUE]
             ELSE UNCHANGED <<orders, task>>
    /\ UNCHANGED <<trades, tradeIdCounter, executionMetrics>>
    /\ Callback

\* the interval of processStopLimitOrder
stopLimitInterval(id) ==
    /\ task[id].checkInterval = "stopLimit"
    /\ \E p \in MarketPrices :
          /\ Draw(<<p>>)
          /\ IF shouldTrigger(orders[id], p)
             THEN /\ orders' = [orders EXCEPT ![id].type = "LIMIT"]
                  /\ task' = [task EXCEPT ![id].checkInterval = "limit",
                                          ![id].expiry = TRUE,
                                          ![id].polls = 0]
             ELSE UNCHANGED <<orders, task>>
    /\ UNCHANGED <<trades, tradeIdCounter, executionMetrics>>
    /\ Callback

\* Math.floor(sliceQuantity * (0.8 + Math.random() * 0.2))
icebergFillQuantity(sliceQuantity, percent) == (sliceQuantity * percent) \div 100

\* the inner timeout of processSlice: works the exposed slice
icebergFill(id) ==
    /\ task[id].slice = "icebergFill"
    /\ \E percent \in FillPercents :
          LET t == task[id]
              o == orders[id]
              fillPrice == o.price
              fillQuantity == icebergFillQuantity(t.sliceQuantity, percent)
              t1 == [t EXCEPT !.totalValue = @ + fillPrice * fillQuantity,
                              !.executedQuantity = @ + fillQuantity,
                              !.remainingQuantity = @ - fillQuantity]
          IN IF fillQuantity > 0
             THEN /\ trades' = Append(trades, createTrade(o, fillQuantity, fillPrice, t.venue))
                  /\ tradeIdCounter' = tradeIdCounter + 1
                  /\ IF t1.remainingQuantity > 0
                     THEN /\ task' = [task EXCEPT ![id] = [t1 EXCEPT !.slice = "icebergNext"]]
                          /\ UNCHANGED <<orders, executionMetrics, px, priceMoves>>
                     ELSE LET done == [o EXCEPT
                                         !.fillQuantity = t1.executedQuantity,
                                         !.avgFillPrice = [n |-> t1.totalValue,
                                                           d |-> t1.executedQuantity],
                                         !.status = IF t1.executedQuantity = o.quantity
                                                    THEN "FILLED" ELSE "PARTIALLY_FILLED"]
                          IN /\ task' = [task EXCEPT ![id] = [t1 EXCEPT !.slice = "none"]]
                             /\ orders' = [orders EXCEPT ![id] = done]
                             /\ executionMetrics' =
                                   Put(executionMetrics, id, calculateExecutionMetrics(done))
                             /\ \E b \in MarketPrices : Draw(<<b>>)
             ELSE /\ task' = [task EXCEPT ![id].slice = "none"]
                  /\ UNCHANGED <<orders, trades, tradeIdCounter, executionMetrics,
                                 px, priceMoves>>
    /\ Callback

\* the timeout that calls processSlice again
icebergNext(id) ==
    /\ task[id].slice = "icebergNext"
    /\ task' = [task EXCEPT ![id] = processSlice(@)]
    /\ UNCHANGED orders
    /\ Quiet
    /\ Callback

\* the timeout that calls executeSlice of processTWAPOrder again
twapTimeout(id) ==
    /\ task[id].slice = "twap"
    /\ \E p \in MarketPrices, b \in TwapBenchmarks :
          executeSliceTWAP(orders[id], task[id], p, b)
    /\ Callback

\* the timeout that calls executeSlice of processVWAPOrder again
vwapTimeout(id) ==
    /\ task[id].slice = "vwap"
    /\ \E p \in MarketPrices : executeSliceVWAP(orders[id], task[id], p)
    /\ Callback

---------------------------------------------------------------------------
(* The system *)

\* no venue selected yet
NoVenue == [venue |-> "none", draws |-> [liq |-> <<>>, adj |-> <<>>]]

NoOrder == newOrder(Req("MARKET", "BUY", 1, Absent, Absent, Absent, "GTC"), 0)

Init ==
    /\ orders = <<>>
    /\ trades = <<>>
    /\ orderIdCounter = 1
    /\ tradeIdCounter = 1
    /\ executionMetrics = <<>>
    /\ task = <<>>
    /\ recentFrom = 1
    /\ px \in MarketPrices
    /\ priceMoves = 0
    /\ ret = NoRet
    /\ userCancelled = {}
    /\ riskIn = [order |-> NoOrder, recent |-> 0]
    /\ riskOut = "none"
    /\ venueIn = NoOrder
    /\ venueOut = NoVenue

Next ==
    \/ \E req \in Requests, draws \in RandomDraws, p \in MarketPrices,
          b \in TwapBenchmarks, h \in HistoricalVWAPs :
            orderIdCounter <= MaxOrders /\ submitOrder(req, draws, p, b, h)
    \/ \E id \in 1..(MaxOrders + 1) : cancelOrder(id)
    \/ \E id \in Ids : marketTimeout(id)
    \/ \E id \in Ids : limitInterval(id)
    \/ \E id \in Ids : limitTimeout(id)
    \/ \E id \in Ids : stopInterval(id)
    \/ \E id \in Ids : stopLimitInterval(id)
    \/ \E id \in Ids : icebergFill(id)
    \/ \E id \in Ids : icebergNext(id)
    \/ \E id \in Ids : twapTimeout(id)
    \/ \E id \in Ids : vwapTimeout(id)

Spec == Init /\ [][Next]_vars

---------------------------------------------------------------------------
(* The risk gate alone: preTradeRiskCheck applied to one order after another *)

RiskInputs ==
    [order : { newOrder(Req(type, "BUY", quantity, price, stopPrice, Absent, "GTC"), 0) :
                 type \in {"MARKET", "LIMIT", "STOP", "STOP_LIMIT"},
                 quantity \in {1, 49999, 50000, 50001},
                 price \in {Absent, 8999, 9000, 10000, 10100, 11000, 11001},
                 stopPrice \in {Absent, 8999, 9000, 11000, 11001, 15000} },
     recent : {0, 10, 11}]

InitRisk ==
    /\ orders = <<>>
    /\ trades = <<>>
    /\ orderIdCounter = 1
    /\ tradeIdCounter = 1
    /\ executionMetrics = <<>>
    /\ task = <<>>
    /\ recentFrom = 1
    /\ px \in MarketPrices
    /\ priceMoves = 0
    /\ ret = NoRet
    /\ userCancelled = {}
    /\ riskIn \in RiskInputs
    /\ riskOut = "none"
    /\ venueIn = NoOrder
    /\ venueOut = NoVenue

\* the call of preTradeRiskCheck in submitOrder
riskCheck ==
    /\ riskOut = "none"
    /\ riskOut' = IF preTradeRiskCheck(riskIn.order, riskIn.recent) THEN "pass" ELSE "reject"
    /\ UNCHANGED <<riskIn, omsVars, venueIn, venueOut>>

\* the next order arrives
riskNextOrder ==
    /\ riskOut # "none"
    /\ riskIn' \in RiskInputs
    /\ riskOut' = "none"
    /\ UNCHANGED <<omsVars, venueIn, venueOut>>

NextRisk == riskCheck \/ riskNextOrder

SpecRisk == InitRisk /\ [][NextRisk]_vars

---------------------------------------------------------------------------
(* Venue selection alone: selectOptimalVenue applied to one order after      *)
(* another, each call drawing its own values from Math.random().             *)

VenueOrders ==
    { newOrder(Req(type, "BUY", quantity, Absent, Absent, Absent, "GTC"), 0) :
        type \in {"MARKET", "LIMIT", "STOP"}, quantity \in {5, 2000} }

\* Math.random() * 100 and Math.random() * 20 - 10, one of each per venue
VenueDraws ==
    [liq : {<<a, b, c, d, e>> : a \in {0, 4, 50}, b \in {0, 4, 50}, c \in {0, 4, 50},
                                d \in {0, 50}, e \in {0, 50}},
     adj : {<<0, 0, 0, 0, 0>>, <<0, 3, 0, 0, 0>>, <<-10, 10, 0, 0, 0>>}]

InitVenue ==
    /\ orders = <<>>
    /\ trades = <<>>
    /\ orderIdCounter = 1
    /\ tradeIdCounter = 1
    /\ executionMetrics = <<>>
    /\ task = <<>>
    /\ recentFrom = 1
    /\ px = 9900
    /\ priceMoves = 0
    /\ ret = NoRet
    /\ userCancelled = {}
    /\ riskIn = [order |-> NoOrder, recent |-> 0]
    /\ riskOut = "none"
    /\ venueIn \in VenueOrders
    /\ venueOut = NoVenue

\* a call of selectOptimalVenue(order); it can be repeated on the same order
venueSelect ==
    /\ \E draws \in VenueDraws :
          venueOut' = [venue |-> selectOptimalVenue(venueIn, draws), draws |-> draws]
    /\ UNCHANGED <<venueIn, omsVars, riskIn, riskOut>>

\* the next order arrives
venueNextOrder ==
    /\ venueOut # NoVenue
    /\ venueIn' \in VenueOrders
    /\ venueOut' = NoVenue
    /\ UNCHANGED <<omsVars, riskIn, riskOut>>

NextVenue == venueSelect \/ venueNextOrder

SpecVenue == InitVenue /\ [][NextVenue]_vars

---------------------------------------------------------------------------
(* A burst of submissions: orders arrive faster than the venue latency, so   *)
(* no timer fires in between, while the clock moves and orders grow older    *)
(* than one second.                                                          *)

MaxBurst == 12          \* submitOrder is called at most MaxBurst times in a burst

BurstRequests ==
    { Req("MARKET", "BUY", 5, Absent, Absent, Absent, "GTC"),
      Req("MARKET", "SELL", 50001, Absent, Absent, Absent, "GTC") }

\* Date.now() moves on: the orders with an id below recentFrom' are older than
\* one second
elapse ==
    /\ recentFrom' \in (recentFrom + 1)..orderIdCounter
    /\ ret' = NoRet
    /\ UNCHANGED <<orders, trades, orderIdCounter, tradeIdCounter, executionMetrics,
                   task, px, priceMoves, userCancelled, riskIn, riskOut, venueIn, venueOut>>

NextVelocity ==
    \/ \E req \in BurstRequests, draws \in RandomDraws, p \in MarketPrices,
          b \in TwapBenchmarks, h \in HistoricalVWAPs :
            orderIdCounter <= MaxBurst /\ submitOrder(req, draws, p, b, h)
    \/ elapse

SpecVelocity == Init /\ [][NextVelocity]_vars

---------------------------------------------------------------------------
(* Orders worked one at a time, with every pending timer firing in the end. *)

MaxLiveOrders == 1      \* submitOrder is called at most MaxLiveOrders times

\* the draws of selectOptimalVenue in these runs: even liquidity, or none at
\* BATS
LiveDraws ==
    RandomDraws \cup { [liq |-> <<50, 50, 0, 50, 50>>, adj |-> <<0, 0, 0, 0, 0>>] }

LiveRequests ==
    { Req("MARKET", "BUY", 5, Absent, Absent, Absent, "GTC"),
      Req("LIMIT", "BUY", 5, 10000, Absent, Absent, "IOC"),
      Req("LIMIT", "SELL", 5, 10800, Absent, Absent, "FOK"),
      Req("LIMIT", "BUY", 5, 9500, Absent, Absent, "DAY"),
      Req("STOP", "BUY", 5, Absent, 10400, Absent, "GTC"),
      Req("STOP", "BUY", 5, Absent, 10900, Absent, "DAY"),
      Req("STOP", "SELL", 5, Absent, 9400, Absent, "IOC"),
      Req("STOP_LIMIT", "SELL", 5, 10000, 10000, Absent, "FOK"),
      Req("STOP_LIMIT", "SELL", 5, 10000, 9400, Absent, "IOC"),
      Req("ICEBERG", "BUY", 4, 10000, Absent, 2, "GTC"),
      Req("ICEBERG", "BUY", 10, 10000, Absent, Absent, "GTC"),
      Req("ICEBERG", "SELL", 30, 10000, Absent, 10, "DAY"),
      Req("ICEBERG", "SELL", 5, 10000, Absent, 10, "DAY"),
      Req("TWAP", "BUY", 45, Absent, Absent, Absent, "DAY"),
      Req("TWAP", "SELL", 2000, Absent, Absent, Absent, "DAY"),
      Req("TWAP", "BUY", 7, Absent, Absent, Absent, "GTC"),
      Req("VWAP", "SELL", 30, Absent, Absent, Absent, "DAY"),
      Req("VWAP", "BUY", 1000, Absent, Absent, Absent, "DAY"),
      Req("LIMIT", "BUY", 5, Absent, Absent, Absent, "IOC"),
      Req("STOP", "SELL", 5, Absent, Absent, Absent, "GTC") }

NextLive ==
    \/ \E req \in LiveRequests, draws \in LiveDraws, p \in MarketPrices,
          b \in TwapBenchmarks, h \in HistoricalVWAPs :
            orderIdCounter <= MaxLiveOrders /\ submitOrder(req, draws, p, b, h)
    \/ \E id \in 1..MaxLiveOrders : cancelOrder(id)
    \/ \E id \in Ids : marketTimeout(id)
    \/ \E id \in Ids : limitInterval(id)
    \/ \E id \in Ids : limitTimeout(id)
    \/ \E id \in Ids : stopInterval(id)
    \/ \E id \in Ids : stopLimitInterval(id)
    \/ \E id \in Ids : icebergFill(id)
    \/ \E id \in Ids : icebergNext(id)
    \/ \E id \in Ids : twapTimeout(id)
    \/ \E id \in Ids : vwapTimeout(id)

\* a timer that is set fires
TimersFire ==
    \A id \in 1..MaxLiveOrders :
        /\ WF_vars(id \in Ids /\ marketTimeout(id))
        /\ WF_vars(id \in Ids /\ limitInterval(id))
        /\ WF_vars(id \in Ids /\ limitTimeout(id))
        /\ WF_vars(id \in Ids /\ stopInterval(id))
        /\ WF_vars(id \in Ids /\ stopLimitInterval(id))
        /\ WF_vars(id \in Ids /\ icebergFill(id))
        /\ WF_vars(id \in Ids /\ icebergNext(id))
        /\ WF_vars(id \in Ids /\ twapTimeout(id))
        /\ WF_vars(id \in Ids /\ vwapTimeout(id))

SpecLive == Init /\ [][NextLive]_vars /\ TimersFire

---------------------------------------------------------------------------
(* Claims *)

\* C1: a terminal status (FILLED, CANCELLED, REJECTED) is absorbing: no step
\* changes the status of an order whose status is terminal.
C1_TerminalAbsorbing ==
    [][\A id \in Ids :
          orders[id].status \in Terminal => orders'[id].status = orders[id].status]_vars

\* C2: once cancelOrder(id) has returned true, no step appends a trade whose
\* orderId is id.
C2_NoTradeAfterCancel ==
    [][\A id \in userCancelled : TradesOf(id)' = TradesOf(id)]_vars

\* C3: for every order in the ledger, 0 <= fillQuantity <= quantity.
C3_FillWithinQuantity ==
    \A id \in Ids :
        /\ 0 <= orders[id].fillQuantity
        /\ orders[id].fillQuantity <= orders[id].quantity

\* an order filled by executeTrade beside an order filled in part by its slices
C3_Witness ==
    /\ \E id \in Ids : /\ orders[id].fillQuantity = orders[id].quantity
                       /\ id \in DOMAIN executionMetrics
                       /\ executionMetrics[id].implementationShortfall = "arrival"
    /\ \E id \in Ids : /\ 0 < orders[id].fillQuantity
                       /\ orders[id].fillQuantity < orders[id].quantity

\* C4: for every order in the ledger, fillQuantity equals quantity if and only
\* if the status is FILLED.
C4_FilledIffComplete ==
    \A id \in Ids :
        (orders[id].fillQuantity = orders[id].quantity) <=> (orders[id].status = "FILLED")

\* a FILLED order with all of its quantity and a PARTIALLY_FILLED one without
C4_Witness ==
    /\ \E id \in Ids : /\ orders[id].status = "FILLED"
                       /\ orders[id].fillQuantity = orders[id].quantity
                       /\ TradesOf(id) # <<>>
    /\ \E id \in Ids : /\ orders[id].status = "PARTIALLY_FILLED"
                       /\ orders[id].fillQuantity < orders[id].quantity

\* C5: in every state, the fillQuantity of each order is the sum of the
\* quantities of the trades recorded for it.
C5_FillIsSumOfTrades ==
    \A id \in Ids : orders[id].fillQuantity = SumQuantity(TradesOf(id))

\* C6: after cancelOrder has returned true for a LIMIT or STOP_LIMIT order, no
\* poll callback of that order runs any more.
C6_CancelStopsPolling ==
    [][\A id \in userCancelled : ~(limitInterval(id) \/ stopLimitInterval(id))]_vars

\* C7: cancelOrder(id) returns true exactly when the order exists and its
\* status is SUBMITTED, or PARTIALLY_FILLED with a timer still pending, and it
\* then leaves the status CANCELLED.
C7_CancelResult ==
    [][\A id \in 1..(MaxOrders + 1) :
          cancelOrder(id) =>
             /\ ret'.ok <=> /\ id \in Ids
                            /\ \/ orders[id].status = "SUBMITTED"
                               \/ orders[id].status = "PARTIALLY_FILLED" /\ Live(id)
             /\ ret'.ok => orders'[id].status = "CANCELLED"]_vars

\* cancelOrder has just returned true and left its order CANCELLED, beside an
\* order that finished PARTIALLY_FILLED
C7_Witness ==
    /\ ret.op = "cancelOrder"
    /\ ret.ok
    /\ \E id \in userCancelled : orders[id].status = "CANCELLED"
    /\ \E id \in Ids : orders[id].status = "PARTIALLY_FILLED"

\* what C8 asks of an order that failed the risk gate
NeverExecuted(id) ==
    /\ orders[id].status = "REJECTED"
    /\ orders[id].fillQuantity = 0
    /\ ~Live(id)
    /\ TradesOf(id) = <<>>
    /\ id \notin DOMAIN executionMetrics

\* C8: an order that fails the risk gate is stored with status REJECTED, stays
\* in the ledger, and never gets a timer, a trade, a fill or metrics.
C8_RejectedNeverExecuted ==
    [][/\ \A id \in (Ids' \ Ids) :
             ~(/\ orders'[id].quantity <= 50000
               /\ estimatedValue(orders'[id]) <= 500000000
               /\ ~priceCollarExceeded(orders'[id])
               /\ RecentCount <= 10)
             => NeverExecuted(id)'
       /\ \A id \in Ids : NeverExecuted(id) => (id \in Ids' /\ NeverExecuted(id)')]_vars

\* a rejected order in the ledger while another order has traded
C8_Witness ==
    /\ \E id \in Ids : NeverExecuted(id)
    /\ Len(trades) > 0

\* the reference price of the notional check: the order's price, else 100 dollars
RefPrice(order) == IF order.price # Absent THEN order.price ELSE 10000

\* C9: the risk gate rejects when quantity > 50000 or quantity * reference
\* price > 5000000 dollars; exactly at a threshold these two are no ground to
\* reject (the order passes when the collar and the velocity check pass).
C9_SizeAndValueLimits ==
    riskOut # "none" =>
        LET o == riskIn.order
            tooBig == o.quantity > 50000 \/ o.quantity * RefPrice(o) > 500000000
        IN /\ tooBig => riskOut = "reject"
           /\ (~tooBig /\ ~priceCollarExceeded(o) /\ riskIn.recent <= 10) => riskOut = "pass"

\* an order exactly at both thresholds has passed
C9_Witness ==
    /\ riskOut = "pass"
    /\ riskIn.order.quantity = 50000
    /\ riskIn.order.quantity * RefPrice(riskIn.order) = 500000000

\* more than 10% away from the last traded price of 100 dollars
OutsideCollar(price) == price # Absent /\ (price < 9000 \/ price > 11000)

\* C10: the risk gate rejects every order whose limit price or stop price is
\* more than 10% away from the last traded price.
C10_CollarOnLimitAndStop ==
    (riskOut # "none"
       /\ (OutsideCollar(riskIn.order.price) \/ OutsideCollar(riskIn.order.stopPrice)))
    => riskOut = "reject"

\* the orders of the trailing one-second window that passed the risk gate
RecentPassed == {id \in Ids : id >= recentFrom /\ orders[id].status # "REJECTED"}

\* C11: in every trailing one-second window at most 10 orders have passed the
\* risk gate: the submission that would make them more than 10 is rejected.
C11_VelocityCap == Cardinality(RecentPassed) <= 10

\* a MARKET order that passed the risk gate and was not cancelled
\* (a STOP order is one from its trigger on: processStopOrder sets its type)
UncancelledMarket(id) ==
    /\ id \in Ids
    /\ orders[id].type = "MARKET"
    /\ orders[id].status # "REJECTED"
    /\ id \notin userCancelled

\* C12: a MARKET order that passed the risk gate and is not cancelled is
\* SUBMITTED without a trade until, after the venue latency, one step makes it
\* FILLED with exactly one trade of the full quantity; it is never
\* PARTIALLY_FILLED, and the fill does come.
C12_MarketFillsInOneTrade ==
    /\ [](\A id \in Ids : UncancelledMarket(id) =>
             \/ orders[id].status = "SUBMITTED" /\ TradesOf(id) = <<>>
             \/ /\ orders[id].status = "FILLED"
                /\ Len(TradesOf(id)) = 1
                /\ TradesOf(id)[1].quantity = orders[id].quantity
                /\ orders[id].fillQuantity = orders[id].quantity)
    /\ [][\A id \in Ids :
             (UncancelledMarket(id) /\ orders'[id].status # orders[id].status) =>
                 \/ id \in userCancelled'
                 \/ orders[id].status = "SUBMITTED" /\ orders'[id].status = "FILLED"]_vars
    /\ \A id \in 1..MaxLiveOrders :
          (UncancelledMarket(id) /\ orders[id].status = "SUBMITTED")
             ~> (id \in userCancelled \/ (id \in Ids /\ orders[id].status = "FILLED"))

\* an uncancelled MARKET order (never a STOP order: it has no stop price) is
\* FILLED through its one trade
C12_Witness ==
    \E id \in Ids : /\ UncancelledMarket(id)
                     /\ orders[id].stopPrice = Absent
                     /\ orders[id].status = "FILLED"
                     /\ Len(TradesOf(id)) = 1

\* a LIMIT order no simulated price crosses
UncrossedLimit(id) ==
    /\ id \in Ids
    /\ orders[id].type = "LIMIT"
    /\ orders[id].status # "REJECTED"
    /\ \A p \in MarketPrices : ~shouldFill(orders[id], p)

\* C13: a LIMIT order whose price is never crossed gets no trade and no fill,
\* is CANCELLED once its time-in-force window has elapsed, and the expiry does
\* not cancel it before the polls that fit into the window have run.
C13_UncrossedLimitExpires ==
    /\ [](\A id \in Ids : UncrossedLimit(id) =>
             orders[id].fillQuantity = 0 /\ TradesOf(id) = <<>>)
    /\ [][\A id \in Ids :
             (/\ UncrossedLimit(id)
              /\ orders[id].status = "SUBMITTED"
              /\ orders'[id].status = "CANCELLED"
              /\ id \notin userCancelled') =>
                 task[id].polls + 1 >= TifPolls(orders[id].timeInForce)]_vars
    /\ \A id \in 1..MaxLiveOrders :
          UncrossedLimit(id)
             ~> (/\ id \in Ids
                 /\ orders[id].status = "CANCELLED"
                 /\ orders[id].fillQuantity = 0
                 /\ TradesOf(id) = <<>>)

\* the expiry, not the caller, has cancelled an uncrossed LIMIT order after
\* its polls
C13_Witness ==
    \E id \in Ids : /\ UncrossedLimit(id)
                     /\ id \notin userCancelled
                     /\ orders[id].status = "CANCELLED"
                     /\ task[id].polls > 0
                     /\ ~Live(id)

\* a TWAP order that passed the risk gate and was not cancelled
UncancelledTwap(id) ==
    /\ id \in Ids
    /\ orders[id].type = "TWAP"
    /\ orders[id].status # "REJECTED"
    /\ id \notin userCancelled

\* C14: an uncancelled TWAP order of quantity q records 20 trades, the first
\* 19 of quantity floor(q / 20) and the last of the rest, so that they sum to
\* q; it is then FILLED with fillQuantity q, and it does get there.
C14_TwapSlices ==
    /\ [](\A id \in Ids : UncancelledTwap(id) =>
             LET ts == TradesOf(id)
                 q == orders[id].quantity
             IN /\ Len(ts) <= 20
                /\ \A i \in 1..Len(ts) :
                      ts[i].quantity = IF i < 20 THEN q \div 20 ELSE q - 19 * (q \div 20)
                /\ ~Live(id) => /\ Len(ts) = 20
                                /\ SumQuantity(ts) = q
                                /\ orders[id].status = "FILLED"
                                /\ orders[id].fillQuantity = q)
    /\ \A id \in 1..MaxLiveOrders :
          UncancelledTwap(id) ~> (id \in userCancelled \/ (id \in Ids /\ ~Live(id)))

\* an uncancelled TWAP order whose quantity is no multiple of 20 is finished
C14_Witness ==
    \E id \in Ids : /\ UncancelledTwap(id)
                     /\ ~Live(id)
                     /\ orders[id].quantity % 20 # 0
                     /\ orders[id].quantity > 20
                     /\ orders[id].status = "FILLED"
                     /\ Len(TradesOf(id)) = 20

\* getVolumeWeight(0, 15) + ... + getVolumeWeight(slice, 15), in 1/6750
RECURSIVE volumeWeightSum(_)
volumeWeightSum(slice) ==
    IF slice < 0 THEN 0 ELSE volumeWeightNum(slice) + volumeWeightSum(slice - 1)

\* C15: the 15 VWAP slice weights sum to 1, so that the slices of an
\* uncancelled VWAP order that has finished add up to its quantity up to
\* rounding (each of the 15 slices loses less than one unit to the floor).
C15_VwapWeightsSumToOne ==
    \A id \in Ids :
        (/\ orders[id].type = "VWAP"
         /\ orders[id].status # "REJECTED"
         /\ id \notin userCancelled
         /\ ~Live(id)) =>
            /\ volumeWeightSum(vwapSlices - 1) = volumeWeightDen
            /\ orders[id].quantity - SumQuantity(TradesOf(id)) < vwapSlices

\* an ICEBERG order that passed the risk gate
Iceberg(id) ==
    /\ id \in Ids
    /\ orders[id].type = "ICEBERG"
    /\ orders[id].status # "REJECTED"

\* the display quantity of the order: floor(quantity / 10) when not supplied
DisplayOf(o) == IF o.displayQuantity # Absent THEN o.displayQuantity ELSE o.quantity \div 10

\* what is left of the order after the trades recorded for it
Unfilled(id) == orders[id].quantity - SumQuantity(TradesOf(id))

\* C16: every slice an ICEBERG order works is min(displayQuantity, remaining
\* quantity), and every child trade it records is at most that.
C16_IcebergExposure ==
    /\ [](\A id \in Ids : Iceberg(id) =>
             /\ task[id].slice = "icebergFill" =>
                    task[id].sliceQuantity = Min(DisplayOf(orders[id]), Unfilled(id))
             /\ \A i \in 1..Len(TradesOf(id)) :
                    TradesOf(id)[i].quantity <= DisplayOf(orders[id]))
    /\ [][\A id \in Ids :
             (Iceberg(id) /\ TradesOf(id)' # TradesOf(id)) =>
                 /\ Len(TradesOf(id)') = Len(TradesOf(id)) + 1
                 /\ TradesOf(id)'[Len(TradesOf(id)')].quantity
                       <= Min(DisplayOf(orders[id]), Unfilled(id))]_vars

\* an ICEBERG order without a display quantity has recorded child trades, and
\* more than its display quantity is still unfilled
C16_Witness ==
    \E id \in Ids : /\ Iceberg(id)
                     /\ orders[id].displayQuantity = Absent
                     /\ Len(TradesOf(id)) >= 2
                     /\ Unfilled(id) > DisplayOf(orders[id])

\* C17: an uncancelled ICEBERG order with no timer pending is FILLED when all
\* of its quantity was filled and PARTIALLY_FILLED otherwise (never SUBMITTED).
C17_IcebergFinalStatus ==
    \A id \in Ids :
        (Iceberg(id) /\ id \notin userCancelled /\ ~Live(id)) =>
            orders[id].status = IF Unfilled(id) = 0 THEN "FILLED" ELSE "PARTIALLY_FILLED"

\* C18: with its timers firing, the child trades of an uncancelled ICEBERG
\* order come to sum to the requested quantity, whatever the fill fractions.
C18_IcebergExhausts ==
    \A id \in 1..MaxLiveOrders :
        (Iceberg(id) /\ id \notin userCancelled)
           ~> (id \in userCancelled \/ (id \in Ids /\ Unfilled(id) = 0))

\* an uncancelled order submitted as STOP: its type is STOP until the trigger
\* and MARKET from then on
UncancelledStop(id) ==
    /\ id \in Ids
    /\ orders[id].stopPrice # Absent
    /\ orders[id].type \in {"STOP", "MARKET"}
    /\ orders[id].status # "REJECTED"
    /\ id \notin userCancelled

\* the stop price is breached: price >= stopPrice for BUY, <= for SELL
Breached(o, price) ==
    IF o.side = "BUY" THEN price >= o.stopPrice ELSE price <= o.stopPrice

\* C19: an uncancelled STOP order is SUBMITTED without a trade while it
\* polls; a poll triggers it exactly when the price it observes breaches the
\* stop price; from then on it is executed like a MARKET order, by one trade
\* of the full quantity, which does come.
C19_StopTriggers ==
    /\ [](\A id \in Ids : UncancelledStop(id) =>
             \/ /\ orders[id].type = "STOP"
                /\ task[id].checkInterval = "stop"
                /\ orders[id].status = "SUBMITTED"
                /\ TradesOf(id) = <<>>
             \/ /\ orders[id].type = "MARKET"
                /\ task[id].checkInterval = "none"
                /\ \/ /\ task[id].timeout
                      /\ orders[id].status = "SUBMITTED"
                      /\ TradesOf(id) = <<>>
                   \/ /\ ~task[id].timeout
                      /\ orders[id].status = "FILLED"
                      /\ Len(TradesOf(id)) = 1
                      /\ TradesOf(id)[1].quantity = orders[id].quantity)
    /\ [][\A id \in Ids :
             (UncancelledStop(id) /\ id \notin userCancelled' /\ stopInterval(id)) =>
                 (orders'[id].type = "MARKET" <=> Breached(orders[id], px'))]_vars
    /\ \A id \in 1..MaxLiveOrders :
          (UncancelledStop(id) /\ orders[id].type = "MARKET")
             ~> (id \in userCancelled \/ (id \in Ids /\ orders[id].status = "FILLED"))

\* a STOP order triggered by a price equal to its stop price has been filled
C19_Witness ==
    \E id \in Ids : /\ UncancelledStop(id)
                     /\ orders[id].type = "MARKET"
                     /\ orders[id].status = "FILLED"
                     /\ Len(TradesOf(id)) = 1
                     /\ orders[id].stopPrice \in MarketPrices

\* a STOP or STOP_LIMIT order whose stop price no simulated price breaches
UnbreachedStop(id) ==
    /\ id \in Ids
    /\ orders[id].type \in {"STOP", "STOP_LIMIT"}
    /\ orders[id].status # "REJECTED"
    /\ orders[id].stopPrice # Absent
    /\ \A p \in MarketPrices : ~Breached(orders[id], p)

\* C20: a LIMIT order that is never crossed and a STOP or STOP_LIMIT order
\* that is never breached end CANCELLED when their time-in-force window has
\* elapsed: they are not left SUBMITTED for ever.
C20_UnfilledOrderExpires ==
    \A id \in 1..MaxLiveOrders :
        (UncrossedLimit(id) \/ UnbreachedStop(id))
           ~> (id \in Ids /\ orders[id].status = "CANCELLED")

\* the identity fields of an order (the symbol is not modelled: no code reads it
\* but the logging)
Identity(o) ==
    <<o.id, o.side, o.type, o.quantity, o.price, o.stopPrice, o.displayQuantity,
      o.timeInForce>>

\* C21: no step changes an identity field (id, side, type, quantity, price,
\* stopPrice, displayQuantity, timeInForce) of an order in the ledger.
C21_IdentityFieldsKept ==
    [][\A id \in Ids : Identity(orders'[id]) = Identity(orders[id])]_vars

\* the request lacks a field its order type needs
MissingRequired(o) ==
    \/ o.type \in {"LIMIT", "STOP_LIMIT", "ICEBERG"} /\ o.price = Absent
    \/ o.type \in {"STOP", "STOP_LIMIT"} /\ o.stopPrice = Absent

\* C22: a request that lacks a field required by its order type is not added
\* to the order ledger (and so gets no execution task).
C22_MissingFieldFailsFast ==
    [][\A id \in (DOMAIN orders') \ Ids : ~MissingRequired(orders'[id])]_vars

\* the composite score of venue number i in the call recorded in venueOut
ScoreOf(i) == calculateVenueScore(venues[i], venueIn, venueOut.draws)

\* C23: selectOptimalVenue returns a venue of maximal score and, among the
\* venues of maximal score, the one declared first.
C23_BestVenueFirstDeclared ==
    venueOut # NoVenue =>
        \E i \in 1..Len(venues) :
            /\ venueOut.venue = venues[i]
            /\ \A j \in 1..Len(venues) : ScoreOf(j) <= ScoreOf(i)
            /\ \A j \in 1..(i - 1) : ScoreOf(j) < ScoreOf(i)

\* two venues share the maximal score and the first declared was returned
C23_Witness ==
    /\ venueOut # NoVenue
    /\ \E i, j \in 1..Len(venues) :
          /\ i < j
          /\ venueOut.venue = venues[i]
          /\ ScoreOf(i) = ScoreOf(j)
          /\ \A k \in 1..Len(venues) : ScoreOf(k) <= ScoreOf(i)

RECURSIVE SumCommission(_)
SumCommission(s) == IF s = <<>> THEN 0 ELSE Head(s).commission + SumCommission(Tail(s))

\* C25: in every state the commission of each order is the sum of the
\* commissions of the trades recorded for it.
C25_CommissionIsSumOfTrades ==
    \A id \in Ids : orders[id].commission = SumCommission(TradesOf(id))

\* C26: right after a trade is recorded for an order, the order is FILLED when
\* its recorded trades sum to the requested quantity and PARTIALLY_FILLED
\* otherwise.
C26_StatusAfterEachTrade ==
    [][\A id \in DOMAIN orders' :
          TradesOf(id)' # TradesOf(id) =>
              orders'[id].status = IF SumQuantity(TradesOf(id)') = orders'[id].quantity
                                   THEN "FILLED" ELSE "PARTIALLY_FILLED"]_vars

\* C27: whenever a trade has been recorded for an order, the order has
\* execution metrics whose fillRate is fillQuantity / quantity.
C27_MetricsAfterEachFill ==
    \A id \in Ids :
        TradesOf(id) # <<>> =>
            /\ id \in DOMAIN executionMetrics
            /\ executionMetrics[id].fillRate.defined
            /\ executionMetrics[id].fillRate.n * orders[id].quantity
                  = orders[id].fillQuantity * executionMetrics[id].fillRate.d

\* an order that is PARTIALLY_FILLED with no timer pending
PartialTerminal(id) ==
    /\ id \in Ids
    /\ orders[id].status = "PARTIALLY_FILLED"
    /\ ~Live(id)

\* C28: an order that is PARTIALLY_FILLED with no work scheduled stays as it
\* is: no step changes its status or fillQuantity, records a trade for it or
\* sets a timer for it, and cancelOrder on it returns false.
C28_PartialTerminalPermanent ==
    [][\A id \in Ids :
          PartialTerminal(id) =>
              /\ orders'[id].status = "PARTIALLY_FILLED"
              /\ orders'[id].fillQuantity = orders[id].fillQuantity
              /\ TradesOf(id)' = TradesOf(id)
              /\ ~Live(id)'
              /\ cancelOrder(id) => ~ret'.ok]_vars

\* cancelOrder has just returned false while the only order of the ledger is
\* PARTIALLY_FILLED with no work scheduled
C28_Witness ==
    /\ ret.op = "cancelOrder"
    /\ ~ret.ok
    /\ Ids = {1}
    /\ PartialTerminal(1)

\* the order has come to rest: no timer is pending for it and it is filled,
\* cancelled or partially filled
AtRest(id) ==
    /\ id \in Ids
    /\ ~Live(id)
    /\ orders[id].status \in {"FILLED", "CANCELLED", "PARTIALLY_FILLED"}

\* C29: when timers fire fairly, every order that passed the risk gate
\* eventually has no work scheduled and is FILLED, CANCELLED or
\* PARTIALLY_FILLED: no order stays SUBMITTED for ever.
C29_EveryOrderComesToRest ==
    \A id \in 1..MaxLiveOrders :
        (id \in Ids /\ orders[id].status # "REJECTED") ~> AtRest(id)

\* a step of the execution task of order a, or cancelOrder(a)
TaskStep(a) ==
    \/ marketTimeout(a)
    \/ limitInterval(a)
    \/ limitTimeout(a)
    \/ stopInterval(a)
    \/ stopLimitInterval(a)
    \/ icebergFill(a)
    \/ icebergNext(a)
    \/ twapTimeout(a)
    \/ vwapTimeout(a)
    \/ cancelOrder(a)

\* what the ledger holds of an order's execution: status, fill, average price,
\* commission, trades and metrics
Execution(b) ==
    <<orders[b].status, orders[b].fillQuantity, orders[b].avgFillPrice,
      orders[b].commission, TradesOf(b), metricsOrEmpty(b),
      b \in DOMAIN executionMetrics>>

\* C30: a step of order a's execution task (poll, slice, latency or expiry
\* callback) or cancelOrder(a) leaves the status, fillQuantity, avgFillPrice
\* and commission of every other order b unchanged, appends no trade and
\* writes no metrics for b.
C30_TasksIndependent ==
    [][\A a \in Ids, b \in Ids :
          (a # b /\ TaskStep(a)) => Execution(b)' = Execution(b)]_vars

\* the latency callback of MARKET order 1 has just filled it while MARKET
\* order 2, submitted before that, still waits for its own callback
C30_Witness ==
    /\ Ids = {1, 2}
    /\ ret.op = "none"
    /\ \A id \in Ids : orders[id].type = "MARKET" /\ orders[id].stopPrice = Absent
    /\ orders[1].status = "FILLED"
    /\ TradesOf(1) # <<>>
    /\ task[2].timeout
    /\ orders[2].status = "SUBMITTED"
    /\ TradesOf(2) = <<>>

\* C31: the trade ledger is append-only: every step leaves the trades already
\* recorded in place and unchanged (id, orderId, side, quantity, price, venue,
\* commission) and can only add trades at the end.
C31_TradeLedgerAppendOnly ==
    [][/\ Len(trades') >= Len(trades)
       /\ SubSeq(trades', 1, Len(trades)) = trades]_vars

\* a trade of order 2 was appended behind a trade of order 1
C31_Witness ==
    /\ Len(trades) >= 2
    /\ trades[1].orderId = 1
    /\ trades[Len(trades)].orderId = 2

\* cancelOrder(id) has nothing to cancel: the id is unknown or the order is
\* FILLED, CANCELLED, REJECTED or PARTIALLY_FILLED
NothingToCancel(id) ==
    \/ id \notin Ids
    \/ /\ id \in Ids
       /\ orders[id].status \in {"FILLED", "CANCELLED", "REJECTED", "PARTIALLY_FILLED"}

\* C32: cancelOrder(id) on an unknown id or on an order that is FILLED,
\* CANCELLED, REJECTED or PARTIALLY_FILLED returns false and leaves the order
\* ledger, the trade ledger and the metrics map unchanged.
C32_CancelOfFinishedIsNoOp ==
    [][\A id \in 1..(MaxOrders + 1) :
          (NothingToCancel(id) /\ cancelOrder(id)) =>
              /\ ~ret'.ok
              /\ orders' = orders
              /\ trades' = trades
              /\ executionMetrics' = executionMetrics]_vars

\* cancelOrder has just returned false with a full ledger of finished orders,
\* one FILLED with its trade and metrics and one CANCELLED
C32_Witness ==
    /\ ret.op = "cancelOrder"
    /\ ~ret.ok
    /\ Ids = 1..MaxOrders
    /\ \A id \in Ids : NothingToCancel(id)
    /\ \E id \in Ids : /\ orders[id].status = "FILLED"
                       /\ TradesOf(id) # <<>>
                       /\ id \in DOMAIN executionMetrics
    /\ \E id \in Ids : orders[id].status = "CANCELLED"

\* the delay of the expiry timeout processLimitOrder has set for the order
ExpiryWindow(id) == getTimeInForceMs(orders[id].timeInForce)

\* C33: the time-in-force window of a pending LIMIT expiry is below one
\* second for IOC and FOK, with FOK <= IOC, and 1000 ms < DAY < GTC.
C33_TimeInForceWindows ==
    \A id \in Ids :
        task[id].expiry =>
            LET w == ExpiryWindow(id)
                tif == orders[id].timeInForce
            IN /\ tif = "FOK" => w < 1000 /\ w <= getTimeInForceMs("IOC")
               /\ tif = "IOC" => w < 1000
               /\ tif = "DAY" => 1000 < w /\ w < getTimeInForceMs("GTC")
               /\ tif = "GTC" => getTimeInForceMs("DAY") < w

\* a LIMIT order the time-in-force expiry, not the caller, has cancelled
ExpiredLimit(id) ==
    /\ id \in Ids
    /\ orders[id].type = "LIMIT"
    /\ orders[id].status = "CANCELLED"
    /\ id \notin userCancelled

\* C34: once the time-in-force expiry has cancelled a LIMIT order, its polling
\* has stopped: no timer of the order is pending, no step records a trade for
\* it and its status stays CANCELLED, whatever prices are drawn later.
C34_ExpiredLimitStaysCancelled ==
    /\ [](\A id \in Ids : ExpiredLimit(id) => ~Live(id))
    /\ [][\A id \in Ids :
             ExpiredLimit(id) =>
                 /\ orders'[id].status = "CANCELLED"
                 /\ TradesOf(id)' = TradesOf(id)]_vars

\* the expiry has cancelled LIMIT order 1, whose price the market crosses, and
\* order 2 has been submitted and executed since at a crossing price
C34_Witness ==
    /\ Ids = {1, 2}
    /\ ExpiredLimit(1)
    /\ TradesOf(1) = <<>>
    /\ shouldFill(orders[1], px)
    /\ TradesOf(2) # <<>>
    /\ ret.op = "none"

\* C35: in every state and for every order, the quantities of the trades
\* recorded for the order sum to at most the quantity requested: the trade
\* ledger holds no overfill.
C35_NoOverfillInLedger ==
    \A id \in Ids : SumQuantity(TradesOf(id)) <= orders[id].quantity

\* a TWAP order cancelled by the caller while it was sliced has all its 20
\* trades, and they sum to the quantity requested
C35_Witness ==
    \E id \in userCancelled :
        /\ orders[id].type = "TWAP"
        /\ Len(TradesOf(id)) = twapSlices
        /\ SumQuantity(TradesOf(id)) = orders[id].quantity
        /\ orders[id].quantity % twapSlices # 0

\* an order worked by processMarketOrder, processLimitOrder, processStopOrder
\* or processStopLimitOrder (a trigger changes the type within this set)
SingleFill(id) ==
    /\ id \in Ids
    /\ orders[id].type \in {"MARKET", "LIMIT", "STOP", "STOP_LIMIT"}

\* C36: at most one trade is ever recorded for an order submitted as MARKET,
\* LIMIT, STOP or STOP_LIMIT, however its polls, latency timer, expiry timer
\* and cancelOrder interleave.
C36_AtMostOneTrade ==
    \A id \in Ids : SingleFill(id) => Len(TradesOf(id)) <= 1

\* a STOP_LIMIT order was triggered, filled by a poll of its limit interval
\* and has seen its expiry timer fire since: it has one trade
C36_Witness ==
    \E id \in Ids :
        /\ orders[id].type = "LIMIT"
        /\ orders[id].stopPrice # Absent
        /\ orders[id].status = "FILLED"
        /\ ~Live(id)
        /\ Len(TradesOf(id)) = 1

\* C37: every trade in the trade ledger has a quantity greater than 0.
C37_TradeQuantityPositive ==
    \A i \in 1..Len(trades) : trades[i].quantity > 0

\* the step is a call of submitOrder
SubmitStep ==
    \E req \in Requests, draws \in RandomDraws, p \in MarketPrices,
       b \in TwapBenchmarks, h \in HistoricalVWAPs : submitOrder(req, draws, p, b, h)

\* C38: every call of submitOrder, accepted or rejected, returns an id that is
\* not yet in the order ledger (so was never returned before) and adds exactly
\* one entry, under that id; no step replaces an entry by another order or
\* removes one.
C38_FreshIdOneEntry ==
    [][/\ Ids \subseteq DOMAIN orders'
       /\ \A id \in Ids : orders'[id].id = orders[id].id
       /\ SubmitStep =>
             /\ ret'.id \notin Ids
             /\ DOMAIN orders' = Ids \cup {ret'.id}
             /\ orders'[ret'.id].id = ret'.id
             /\ \A id \in Ids : orders'[id] = orders[id]]_vars

\* submitOrder has just returned the id of a rejected order, stored beside an
\* earlier order that has been filled
C38_Witness ==
    /\ ret.op = "submitOrder"
    /\ ret.id = 2
    /\ Ids = {1, 2}
    /\ orders[2].status = "REJECTED"
    /\ orders[1].status = "FILLED"

\* the venues selectOptimalVenue can return for the order
SelectableVenues(o) == {selectOptimalVenue(o, draws) : draws \in LiveDraws}

\* C39: the venue of an order is chosen once, by selectOptimalVenue in
\* submitOrder, and never changes afterwards; every trade recorded for the
\* order carries that venue, also after a STOP or STOP_LIMIT order has been
\* re-dispatched.
C39_VenueChosenOnce ==
    /\ [](\A i \in 1..Len(trades) :
             trades[i].venue = task[trades[i].orderId].venue)
    /\ [][/\ \A id \in Ids : task'[id].venue = task[id].venue
          /\ \A id \in (DOMAIN orders') \ Ids :
                orders'[id].status # "REJECTED" =>
                    task'[id].venue \in SelectableVenues(orders'[id])]_vars

\* a STOP order routed to a venue other than BATS was triggered, re-dispatched
\* as a market order and filled: its trade carries the venue of its submission
C39_Witness ==
    \E id \in Ids :
        /\ orders[id].type = "MARKET"
        /\ orders[id].stopPrice # Absent
        /\ task[id].venue \notin {"BATS", "none"}
        /\ Len(TradesOf(id)) = 1
        /\ TradesOf(id)[1].venue = task[id].venue

====
